---- MODULE Spec2Model ----
(***************************************************************************)
(* A model of fake_menstruator.py: the menstruator profile, its samplers,  *)
(* the event hook, and generate_cycles.                                    *)
(*                                                                         *)
(* Durations (float days, timedelta) are fixed-point numbers counted in    *)
(* ticks of 1/TicksPerDay day; dates are proleptic Gregorian ordinals.     *)
(* The random-number stream is a tape of raw draws that is materialised    *)
(* as it is read: a position read for the first time takes any value of    *)
(* the reader's range, a position read again gives the value it has.       *)
(***************************************************************************)
EXTENDS Integers, Sequences, FiniteSets, TLC

\* ------------------------------------------------------------------ units

\* timedelta(days = x) at line 59: x is a float number of days; the model
\* keeps 1/40 day, which holds every tenth of a day and every quarter multiple.
TicksPerDay == 40

\* Python's None where a string (the note) is expected.
NONE == "<None>"

\* ------------------------------------------------------------------ bounds

\* The largest count passed to generate_cycles (besides the two scenarios
\* of fixed count 3).
MaxCount == 2

\* --------------------------------------------------------------- datetime

\* timedelta(days = d): d in ticks; exact at this resolution.
timedelta(d) == d

\* timedelta.days: whole days, rounded towards minus infinity.
td_days(td) == td \div TicksPerDay

\* A variant of DateAdd that goes back instead of forward.
DateSub(d, td) == d - td_days(td)

\* date + timedelta: only the timedelta's whole days count.
DateAdd(d, td) == d + td_days(td)

is_leap(y) == y % 4 = 0 /\ (y % 100 # 0 \/ y % 400 = 0)

days_before_year(y) ==
    LET n == y - 1 IN n * 365 + (n \div 4) - (n \div 100) + (n \div 400)

DaysInMonth == <<31, 28, 31, 30, 31, 30, 31, 31, 30, 31, 30, 31>>

RECURSIVE days_before_month(_, _)
days_before_month(y, m) ==
    IF m = 1 THEN 0
    ELSE days_before_month(y, m - 1) + DaysInMonth[m - 1]
         + (IF m - 1 = 2 /\ is_leap(y) THEN 1 ELSE 0)

\* date(y, m, d) as an ordinal (date.toordinal()).
date(y, m, d) == days_before_year(y) + days_before_month(y, m) + d

\* ----------------------------------------------------------------- random

\* random.random() in quarters, indexed by the raw draw.
RandomValues == <<0, 2>>

\* Standard normal variates, indexed by the raw draw.
ZValues == <<-1, 1>>

\* random.random(): a value of [0, 1), in quarters.
random_random(raw) == RandomValues[raw]

\* random.uniform(a, b) = a + (b - a) * random(), in quarters.
random_uniform(a, b, raw) == a * 4 + (b - a) * random_random(raw)

\* random.gauss(mu, sigma) = mu + z * sigma.
random_gauss(mu, sigma, raw) == mu + ZValues[raw] * sigma

\* ---------------------------------------------------------------- results

\* The outcome of calling a callable: a value, or an exception raised.
Ok(v) == [exc |-> "none", val |-> v]
Raise(e) == [exc |-> e, val |-> 0]

\* Optional[CycleEvent] (line 28): None, or (cycle length, bleed length, note).
NoEvent == [some |-> FALSE, cycle_length |-> 0, bleed_length |-> 0, note |-> NONE]
CycleEvent(c, b, n) ==
    [some |-> TRUE, cycle_length |-> c, bleed_length |-> b, note |-> n]

\* --------------------------------------------------------------- profiles

\* A callable of no arguments returning a float: a Gaussian sampler, or a
\* caller's own callable given by the outcomes it can have.
GaussGenerator(mu, sigma) ==
    [kind |-> "gauss", mu |-> mu, sigma |-> sigma, values |-> <<>>]
TableGenerator(vals) ==
    [kind |-> "table", mu |-> 0, sigma |-> 0, values |-> vals]

\* menstruator.__init__ (description is display text and is left out).
\* event_gen names the event generator: "None", "check_incomplete_pregnancy"
\* (as bound by create_default_menstruator) or "custom", a caller's own hook
\* given by the outcomes event_values it can have.
menstruator(cycle_gen, bleed_gen, event_gen, event_values) ==
    [_cycle_length_generator |-> cycle_gen,
     _bleed_length_generator |-> bleed_gen,
     _event_generator |-> event_gen,
     event_values |-> event_values]

\* Population statistics, in ticks.
CYCLE_LENGTH_MEAN == 1172
CYCLE_LENGTH_STDDEV == 208
CYCLE_LENGTH_USER_VARIATION_MEAN == 104
CYCLE_LENGTH_USER_VARIATION_STDDEV == 100
BLEED_LENGTH_MEAN == 160
BLEED_LENGTH_STDDEV == 60

\* Probability of the anomaly per cycle, in thousandths.
p_pregnancy_each_cycle == 25

\* create_default_menstruator, given the two draws it makes.
create_default_menstruator(raw_mu, raw_sigma) ==
    LET user_cycle_mu ==
            random_gauss(CYCLE_LENGTH_MEAN, CYCLE_LENGTH_STDDEV, raw_mu)
        user_cycle_sigma ==
            random_gauss(CYCLE_LENGTH_USER_VARIATION_MEAN,
                         CYCLE_LENGTH_USER_VARIATION_STDDEV, raw_sigma)
    IN  menstruator(GaussGenerator(user_cycle_mu, user_cycle_sigma),
                    GaussGenerator(BLEED_LENGTH_MEAN, BLEED_LENGTH_STDDEV),
                    "check_incomplete_pregnancy", <<>>)

\* The callers' own profiles the model draws from.
\* Constant samplers 28 and 5 days, no hook.
ConstantProfile ==
    menstruator(TableGenerator(<<Ok(28 * TicksPerDay)>>),
                TableGenerator(<<Ok(5 * TicksPerDay)>>), "None", <<>>)

\* Samplers with fractional, negative and failing outcomes, no hook.
PlainProfile ==
    menstruator(TableGenerator(<<Ok(28 * TicksPerDay), Ok(60), Ok(20),
                                 Ok(-40), Raise("CycleError")>>),
                TableGenerator(<<Ok(5 * TicksPerDay), Ok(60),
                                 Raise("BleedError")>>),
                "None", <<>>)

\* A caller's own hook: no override, three overrides, or an exception.
HookedProfile ==
    menstruator(TableGenerator(<<Ok(28 * TicksPerDay), Ok(20)>>),
                TableGenerator(<<Ok(5 * TicksPerDay)>>),
                "custom",
                <<Ok(NoEvent),
                  Ok(CycleEvent(2 * TicksPerDay, 3 * TicksPerDay, "late")),
                  Ok(CycleEvent(20, 5 * TicksPerDay, "short")),
                  Ok(CycleEvent(-40, 40, "negative")),
                  Raise("HookError")>>)

DefaultProfiles ==
    {create_default_menstruator(1, rs) : rs \in 1..Len(ZValues)}

Profiles ==
    {ConstantProfile, PlainProfile, HookedProfile} \cup DefaultProfiles

\* ------------------------------------------------------------------ state

VARIABLES
    profile,            \* self
    pc,                 \* position in generate_cycles
    start_date_arg,     \* the start_date argument (0 for None)
    count,              \* the count argument
    initial_cycle_day,  \* the initial_cycle_day argument
    anchor,             \* start_date after line 57
    start_date,         \* the local start_date
    i,                  \* the loop index
    next_cycle,         \* local
    bleed_length,       \* local
    cycle_note,         \* local
    event,              \* local
    cycles,             \* local list
    result,             \* what the call returned, if it returned
    exception,          \* what the call raised, if it raised
    tape,               \* the random stream read so far
    pos,                \* the stream position
    calls,              \* invocations of the profile's three callables
    log,                \* the invocations and appends of this call, in order
    drawn_cycle,        \* values of get_cycle_length() at line 59, per iteration
    drawn_bleed,        \* values of get_bleed_length() at line 62, per iteration
    hook_events,        \* values of cycle_event_hook() at line 65, per iteration
    hook_inner,         \* the samples the default hook drew, per iteration
    call_no,            \* 1 for the first call, 2 for a repeated call
    first               \* result and stream position of the first call

vars == <<profile, pc, start_date_arg, count, initial_cycle_day, anchor,
          start_date, i, next_cycle, bleed_length, cycle_note, event, cycles,
          result, exception, tape, pos, calls, log, drawn_cycle, drawn_bleed,
          hook_events, hook_inner, call_no, first>>

NoResult == [returned |-> FALSE, value |-> <<>>]
Returned(v) == [returned |-> TRUE, value |-> v]

\* ---------------------------------------------------------------- callers

\* What the callers of the model pass to generate_cycles.
NoDate == 0
StartDates == {date(2024, 1, 1)}
Todays == {date(2022, 6, 28)}
InitialCycleDays == {0, 10}

\* The constant-sampler and offset scenarios: count 3 from 2024-01-01.
ScenarioArgs ==
    {[start_date |-> date(2024, 1, 1), count |-> 3,
      initial_cycle_day |-> d] : d \in InitialCycleDays}

CallArgs(self) ==
    [start_date : StartDates \cup {NoDate}, count : 0..MaxCount,
     initial_cycle_day : InitialCycleDays]
    \cup (IF self = ConstantProfile THEN ScenarioArgs ELSE {})

\* ----------------------------------------------------------- the samplers

\* The raw draws a generator can read.
GeneratorRange(gen) ==
    IF gen.kind = "gauss" THEN 1..Len(ZValues) ELSE 1..Len(gen.values)

\* Calling a generator on the raw draw it gets.
call_generator(gen, raw) ==
    IF gen.kind = "gauss"
    THEN Ok(random_gauss(gen.mu, gen.sigma, raw))
    ELSE gen.values[raw]

get_cycle_length(self, raw) == call_generator(self._cycle_length_generator, raw)

get_bleed_length(self, raw) == call_generator(self._bleed_length_generator, raw)

\* --------------------------------------------------------------- the hook

\* What a hook invocation did: its outcome, the draws it used, the sampler
\* calls it made and the samples it got.
HookRun(out, used, cc, bc, cs, bs) ==
    [out |-> out, used |-> used, cycle_calls |-> cc, bleed_calls |-> bc,
     cycle_sample |-> cs, bleed_sample |-> bs]

\* random.random() < p, random() in quarters and p in thousandths.
pregnancy_fires(raw, p) == random_random(raw) * 250 < p

\* A variant of long_cycle_of that adds the factor, as days, to the sample.
long_cycle_added(sample, factor) == sample + (factor * TicksPerDay) \div 4

\* long_cycle: the sample times the factor (in quarters).
long_cycle_of(sample, factor) == (sample * factor) \div 4

\* check_incomplete_pregnancy(user, p) on the draws ds = <<random, cycle,
\* uniform, bleed>>, read in this order as far as the code gets.
check_incomplete_pregnancy(user, p, ds) ==
    IF ~pregnancy_fires(ds[1], p)
    THEN HookRun(Ok(NoEvent), 1, 0, 0, 0, 0)
    ELSE LET c == get_cycle_length(user, ds[2])
             f == random_uniform(2, 3, ds[3])
             b == get_bleed_length(user, ds[4])
             note == "Was pregnant, aborted or miscarried"
         IN  IF c.exc # "none" THEN HookRun(c, 2, 1, 0, 0, 0)
             ELSE IF b.exc # "none" THEN HookRun(b, 4, 1, 1, c.val, 0)
             ELSE HookRun(Ok(CycleEvent(timedelta(long_cycle_of(c.val, f)),
                                        timedelta(b.val), note)),
                          4, 1, 1, c.val, b.val)

\* The draws the event generator may read.
HookDraws(self) ==
    CASE self._event_generator = "None" -> {<<>>}
      [] self._event_generator = "custom" ->
            {<<k>> : k \in 1..Len(self.event_values)}
      [] OTHER ->
            {<<r, c, u, b>> :
                r \in 1..Len(RandomValues),
                c \in GeneratorRange(self._cycle_length_generator),
                u \in 1..Len(RandomValues),
                b \in GeneratorRange(self._bleed_length_generator)}

\* A variant of has_event_generator that knows the default generator only.
has_default_generator(self) ==
    self._event_generator = "check_incomplete_pregnancy"

\* Whether the profile has an event generator (line 50).
has_event_generator(self) == self._event_generator # "None"

\* menstruator.cycle_event_hook.
cycle_event_hook(self, ds) ==
    IF ~has_event_generator(self)
    THEN HookRun(Ok(NoEvent), 0, 0, 0, 0, 0)
    ELSE IF self._event_generator = "custom"
    THEN HookRun(self.event_values[ds[1]], 1, 0, 0, 0, 0)
    ELSE check_incomplete_pregnancy(self, p_pregnancy_each_cycle, ds)

\* ------------------------------------------------------------- the stream

\* The draws ds agree with what the stream already holds from pos on.
Reads(ds) ==
    \A k \in 1..Len(ds) : pos + k <= Len(tape) => tape[pos + k] = ds[k]

\* Reading ds advances the stream by Len(ds).
Consume(ds) ==
    /\ Reads(ds)
    /\ pos' = pos + Len(ds)
    /\ tape' = IF pos + Len(ds) <= Len(tape) THEN tape
               ELSE SubSeq(tape, 1, pos) \o ds

\* -------------------------------------------------------- generate_cycles

Init ==
    /\ profile \in Profiles
    /\ pc = "idle"
    /\ start_date_arg = NoDate
    /\ count = 0
    /\ initial_cycle_day = 0
    /\ anchor = NoDate
    /\ start_date = NoDate
    /\ i = 0
    /\ next_cycle = 0
    /\ bleed_length = 0
    /\ cycle_note = NONE
    /\ event = NoEvent
    /\ cycles = <<>>
    /\ result = NoResult
    /\ exception = "none"
    /\ tape = <<>>
    /\ pos = 0
    /\ calls = [cycle |-> 0, bleed |-> 0, hook |-> 0]
    /\ log = <<>>
    /\ drawn_cycle = <<>>
    /\ drawn_bleed = <<>>
    /\ hook_events = <<>>
    /\ hook_inner = <<>>
    /\ call_no = 1
    /\ first = [result |-> NoResult, exception |-> "none", pos |-> 0]

\* A variant of successor that calls the hook before sampling the bleed.
successor_hook_first(at) ==
    CASE at = "for" -> "hook"
      [] at = "hook" -> "bleed"
      [] at = "bleed" -> "commit"
      [] at = "commit" -> "for"

\* The statement that follows each statement of the loop body.
successor(at) ==
    CASE at = "for" -> "bleed"
      [] at = "bleed" -> "hook"
      [] at = "hook" -> "commit"
      [] at = "commit" -> "for"

\* A variant of on_raise that stays at the statement and calls again.
on_raise_retry(at) == at

\* Where control goes when the statement at `at` raises: out of the call.
on_raise(at) == "raised"

\* A variant of in_range that runs the body once more.
in_range_inclusive(idx, n) == idx <= n

\* for i in range(count): whether the loop runs its body for index i.
in_range(idx, n) == idx < n

\* Variants of first_cycle_offset: the offset taken off in no iteration,
\* and in every iteration.
first_cycle_offset_never(idx, icd) == timedelta(0)
first_cycle_offset_always(idx, icd) == timedelta(icd * TicksPerDay)

\* Lines 60-61: what the first iteration takes off the sampled interval.
first_cycle_offset(idx, icd) ==
    IF 0 = idx THEN timedelta(icd * TicksPerDay) ELSE timedelta(0)

\* A variant of unpack_event that keeps the sampled bleed length.
unpack_event_keep_bleed(ev, nc, bl, note) ==
    IF ev.some THEN <<ev.cycle_length, bl, ev.note>>
    ELSE <<nc, bl, note>>

\* Lines 66-67: the values the iteration commits, <<next_cycle,
\* bleed_length, cycle_note>>, given what the hook returned.
unpack_event(ev, nc, bl, note) ==
    IF ev.some THEN <<ev.cycle_length, ev.bleed_length, ev.note>>
    ELSE <<nc, bl, note>>

\* A variant of generate_cycles_entry whose list outlives the call (a list
\* made once, as a default argument would be).
generate_cycles_entry_stale(a, today) ==
    /\ start_date_arg' = a.start_date
    /\ count' = a.count
    /\ initial_cycle_day' = a.initial_cycle_day
    /\ cycles' = cycles
    /\ anchor' = IF a.start_date = NoDate THEN today ELSE a.start_date
    /\ start_date' = anchor'
    /\ i' = 0
    /\ next_cycle' = 0
    /\ bleed_length' = 0
    /\ cycle_note' = NONE
    /\ event' = NoEvent
    /\ result' = NoResult
    /\ exception' = "none"
    /\ log' = <<>>
    /\ drawn_cycle' = <<>>
    /\ drawn_bleed' = <<>>
    /\ hook_events' = <<>>
    /\ hook_inner' = <<>>
    /\ calls' = [cycle |-> 0, bleed |-> 0, hook |-> 0]
    /\ pc' = "for"

\* Lines 55-57, with fresh locals: the state a call starts in.
generate_cycles_entry(a, today) ==
    /\ start_date_arg' = a.start_date
    /\ count' = a.count
    /\ initial_cycle_day' = a.initial_cycle_day
    /\ cycles' = <<>>
    /\ anchor' = IF a.start_date = NoDate THEN today ELSE a.start_date
    /\ start_date' = anchor'
    /\ i' = 0
    /\ next_cycle' = 0
    /\ bleed_length' = 0
    /\ cycle_note' = NONE
    /\ event' = NoEvent
    /\ result' = NoResult
    /\ exception' = "none"
    /\ log' = <<>>
    /\ drawn_cycle' = <<>>
    /\ drawn_bleed' = <<>>
    /\ hook_events' = <<>>
    /\ hook_inner' = <<>>
    /\ calls' = [cycle |-> 0, bleed |-> 0, hook |-> 0]
    /\ pc' = "for"

\* A caller calls generate_cycles(start_date, count, initial_cycle_day).
Call ==
    /\ pc = "idle"
    /\ \E a \in CallArgs(profile), today \in Todays :
          generate_cycles_entry(a, today)
    /\ UNCHANGED <<profile, tape, pos, call_no, first>>

\* Lines 58-61: the loop takes index i, samples the cycle length and, in
\* the first iteration, takes initial_cycle_day off it.
GetCycleLength ==
    /\ pc = "for"
    /\ in_range(i, count)
    /\ \E raw \in GeneratorRange(profile._cycle_length_generator) :
          LET r == get_cycle_length(profile, raw) IN
          /\ Consume(<<raw>>)
          /\ calls' = [calls EXCEPT !.cycle = @ + 1]
          /\ log' = Append(log, <<"cycle", i>>)
          /\ IF r.exc # "none"
             THEN /\ pc' = on_raise(pc)
                  /\ exception' = r.exc
                  /\ UNCHANGED <<next_cycle, drawn_cycle>>
             ELSE /\ pc' = successor(pc)
                  /\ next_cycle' = timedelta(r.val)
                                   - first_cycle_offset(i, initial_cycle_day)
                  /\ drawn_cycle' = Append(drawn_cycle, r.val)
                  /\ UNCHANGED exception
    /\ UNCHANGED <<profile, start_date_arg, count, initial_cycle_day, anchor,
                   start_date, i, bleed_length, cycle_note, event, cycles,
                   result, drawn_bleed, hook_events, hook_inner, call_no,
                   first>>

\* Lines 62-63: samples the bleed length and clears the note.
GetBleedLength ==
    /\ pc = "bleed"
    /\ \E raw \in GeneratorRange(profile._bleed_length_generator) :
          LET r == get_bleed_length(profile, raw) IN
          /\ Consume(<<raw>>)
          /\ calls' = [calls EXCEPT !.bleed = @ + 1]
          /\ log' = Append(log, <<"bleed", i>>)
          /\ IF r.exc # "none"
             THEN /\ pc' = on_raise(pc)
                  /\ exception' = r.exc
                  /\ UNCHANGED <<bleed_length, cycle_note, drawn_bleed>>
             ELSE /\ pc' = successor(pc)
                  /\ bleed_length' = timedelta(r.val)
                  /\ cycle_note' = NONE
                  /\ drawn_bleed' = Append(drawn_bleed, r.val)
                  /\ UNCHANGED exception
    /\ UNCHANGED <<profile, start_date_arg, count, initial_cycle_day, anchor,
                   start_date, i, next_cycle, event, cycles, result,
                   drawn_cycle, hook_events, hook_inner, call_no, first>>

\* Line 65: event = self.cycle_event_hook(), with every draw and sampler
\* call the event generator makes.
CycleEventHook ==
    /\ pc = "hook"
    /\ \E ds \in HookDraws(profile) :
          LET h == cycle_event_hook(profile, ds)
              used == SubSeq(ds, 1, h.used)
          IN
          /\ Consume(used)
          /\ calls' = [cycle |-> calls.cycle + h.cycle_calls,
                       bleed |-> calls.bleed + h.bleed_calls,
                       hook |-> calls.hook
                                + (IF has_event_generator(profile)
                                   THEN 1 ELSE 0)]
          /\ log' = Append(log, <<"hook", i>>)
          /\ IF h.out.exc # "none"
             THEN /\ pc' = on_raise(pc)
                  /\ exception' = h.out.exc
                  /\ UNCHANGED <<event, hook_events, hook_inner>>
             ELSE /\ pc' = successor(pc)
                  /\ event' = h.out.val
                  /\ hook_events' = Append(hook_events, h.out.val)
                  /\ hook_inner' = Append(hook_inner,
                                          [cycle_sample |-> h.cycle_sample,
                                           bleed_sample |-> h.bleed_sample,
                                           cycle_calls |-> h.cycle_calls,
                                           bleed_calls |-> h.bleed_calls,
                                           used |-> used])
                  /\ UNCHANGED exception
    /\ UNCHANGED <<profile, start_date_arg, count, initial_cycle_day, anchor,
                   start_date, i, next_cycle, bleed_length, cycle_note,
                   cycles, result, drawn_cycle, drawn_bleed, call_no, first>>

\* Lines 66-71: takes the override if there is one, advances start_date and
\* appends the record; the loop index moves on.
Commit ==
    /\ pc = "commit"
    /\ LET v == unpack_event(event, next_cycle, bleed_length, cycle_note) IN
          /\ next_cycle' = v[1]
          /\ bleed_length' = v[2]
          /\ cycle_note' = v[3]
          /\ start_date' = DateAdd(start_date, v[1])
          /\ cycles' = Append(cycles, [start_date |-> start_date',
                                       bleed_length |-> v[2],
                                       note |-> v[3]])
    /\ log' = Append(log, <<"append", i>>)
    /\ i' = i + 1
    /\ pc' = successor(pc)
    /\ UNCHANGED <<profile, start_date_arg, count, initial_cycle_day, anchor,
                   event, result, exception, tape, pos, calls, drawn_cycle,
                   drawn_bleed, hook_events, hook_inner, call_no, first>>

\* Line 72: the loop is exhausted and the list is returned.
Return ==
    /\ pc = "for"
    /\ ~in_range(i, count)
    /\ result' = Returned(cycles)
    /\ pc' = "done"
    /\ UNCHANGED <<profile, start_date_arg, count, initial_cycle_day, anchor,
                   start_date, i, next_cycle, bleed_length, cycle_note, event,
                   cycles, exception, tape, pos, calls, log, drawn_cycle,
                   drawn_bleed, hook_events, hook_inner, call_no, first>>

Next ==
    \/ Call
    \/ GetCycleLength
    \/ GetBleedLength
    \/ CycleEventHook
    \/ Commit
    \/ Return

Spec == Init /\ [][Next]_vars

\* ------------------------------------------------------- a repeated call

\* The profiles and arguments of the seeded runs: an explicit start date, so
\* that both calls get the same anchor.
SeededProfiles ==
    {create_default_menstruator(1, 1), HookedProfile, PlainProfile}

SeededArgs ==
    [start_date : StartDates, count : 0..MaxCount,
     initial_cycle_day : InitialCycleDays]

InitDet ==
    /\ Init
    /\ profile \in SeededProfiles

\* The caller seeds the stream and calls generate_cycles.
CallSeeded ==
    /\ pc = "idle"
    /\ \E a \in SeededArgs : generate_cycles_entry(a, a.start_date)
    /\ UNCHANGED <<profile, tape, pos, call_no, first>>

\* The caller puts the stream back to the position the first call started
\* from (random.seed with the same seed) and calls generate_cycles again
\* on the same profile with the same arguments.
CallAgain ==
    /\ pc \in {"done", "raised"}
    /\ call_no = 1
    /\ call_no' = 2
    /\ first' = [result |-> result, exception |-> exception, pos |-> pos]
    /\ pos' = 0
    /\ generate_cycles_entry([start_date |-> anchor, count |-> count,
                              initial_cycle_day |-> initial_cycle_day],
                             anchor)
    /\ UNCHANGED <<profile, tape>>

NextDet ==
    \/ CallSeeded
    \/ GetCycleLength
    \/ GetBleedLength
    \/ CycleEventHook
    \/ Commit
    \/ Return
    \/ CallAgain

SpecDet == InitDet /\ [][NextDet]_vars

\* ----------------------------------------------------------- properties

HasHook == profile._event_generator # "None"
IsDefault == profile._event_generator = "check_incomplete_pregnancy"

\* The offset as a duration.
OffsetTicks == initial_cycle_day * TicksPerDay

\* Whole days of a duration, rounded down.
WholeDays(t) == t \div TicksPerDay

\* The start date before record k: the anchor, or record k-1's date.
PrevDate(k) == IF k = 1 THEN anchor ELSE cycles[k - 1].start_date

RECURSIVE SumTicks(_, _)
SumTicks(s, k) == IF k = 0 THEN 0 ELSE SumTicks(s, k - 1) + s[k]

RECURSIVE SumWholeDays(_, _)
SumWholeDays(s, k) ==
    IF k = 0 THEN 0 ELSE SumWholeDays(s, k - 1) + WholeDays(s[k])

StrictlyIncreasing(cs) ==
    \A k \in 2..Len(cs) : cs[k].start_date > cs[k - 1].start_date

\* C1: a call that returns, returns exactly count records (none for
\* count 0), whatever the profile, the anchor and the offset.
C1_LengthIsCount ==
    pc = "done" =>
        /\ result.returned
        /\ Len(result.value) = count
        /\ (count = 0 => result.value = <<>>)

C1_Witness ==
    /\ pc = "done"
    /\ HasHook
    /\ count = 2
    /\ Len(result.value) = 2
    /\ initial_cycle_day > 0

\* Every value the cycle-length sampler returned in this call, and every
\* override's cycle length, is at least `least`.
CycleLengthsAtLeast(least) ==
    /\ \A k \in 1..Len(drawn_cycle) : drawn_cycle[k] >= least
    /\ \A k \in 1..Len(hook_inner) :
          hook_inner[k].cycle_calls > 0 => hook_inner[k].cycle_sample >= least
    /\ \A k \in 1..Len(hook_events) :
          hook_events[k].some => hook_events[k].cycle_length >= least

\* C2 as stated: with non-negative cycle lengths and overrides, the start
\* dates of the returned records are strictly increasing.
C2_Original ==
    (pc = "done" /\ CycleLengthsAtLeast(0)) => StrictlyIncreasing(result.value)

\* C2, amended: with cycle lengths and overrides of at least one day, the
\* start dates of the returned records are strictly increasing.
C2_IncreasingFromOneDay ==
    (pc = "done" /\ CycleLengthsAtLeast(TicksPerDay))
        => StrictlyIncreasing(result.value)

C2_Witness ==
    /\ pc = "done"
    /\ count = 2
    /\ initial_cycle_day > 0
    /\ CycleLengthsAtLeast(TicksPerDay)
    /\ hook_events[2].some
    /\ result.value[2].start_date > result.value[1].start_date

\* C3: on a profile with an event hook, the hook has been invoked once for
\* every record appended, once more when the iteration under way is past
\* its hook call, and count times when the call returns.
C3_HookOncePerCycle ==
    (HasHook /\ pc \in {"for", "bleed", "hook", "commit", "done"}) =>
        /\ calls.hook = Len(cycles) + (IF pc = "commit" THEN 1 ELSE 0)
        /\ (pc = "done" => calls.hook = count)

C3_Witness ==
    /\ pc = "done"
    /\ HasHook
    /\ count = 2
    /\ hook_events[1].some
    /\ calls.hook = 2

\* C4: record k is the override of iteration k when the hook returned one
\* (previous date plus the override's cycle length, its bleed length, its
\* note), and otherwise the sampled values, the first interval less the
\* offset, with note None.
C4_OverrideReplaces ==
    \A k \in 1..Len(cycles) :
        LET ev == hook_events[k]
            off == IF k = 1 THEN OffsetTicks ELSE 0
        IN  IF ev.some
            THEN cycles[k] =
                    [start_date |-> PrevDate(k) + WholeDays(ev.cycle_length),
                     bleed_length |-> ev.bleed_length,
                     note |-> ev.note]
            ELSE cycles[k] =
                    [start_date |-> PrevDate(k)
                                    + WholeDays(drawn_cycle[k] - off),
                     bleed_length |-> drawn_bleed[k],
                     note |-> NONE]

C4_Witness ==
    /\ Len(cycles) >= 1
    /\ initial_cycle_day > 0
    /\ hook_events[1].some
    /\ hook_events[1].bleed_length # drawn_bleed[1]
    /\ hook_events[1].cycle_length # drawn_cycle[1] - OffsetTicks
    /\ cycles[1].bleed_length = hook_events[1].bleed_length

\* The records the two scenarios of the specification expect: constant
\* samplers 28 and 5, anchor 2024-01-01, count 3, offset 0 and offset 10.
ScenarioRecord(d) ==
    [start_date |-> d, bleed_length |-> 5 * TicksPerDay, note |-> NONE]

ScenarioExpected(icd) ==
    IF icd = 0
    THEN <<ScenarioRecord(date(2024, 1, 29)), ScenarioRecord(date(2024, 2, 26)),
           ScenarioRecord(date(2024, 3, 25))>>
    ELSE <<ScenarioRecord(date(2024, 1, 19)), ScenarioRecord(date(2024, 2, 16)),
           ScenarioRecord(date(2024, 3, 15))>>

InScenario ==
    /\ profile = ConstantProfile
    /\ pc = "done"
    /\ start_date_arg = date(2024, 1, 1)
    /\ count = 3
    /\ initial_cycle_day \in {0, 10}

ScenariosHold == InScenario => result.value = ScenarioExpected(initial_cycle_day)

\* C5 as stated: without a hook, record k is dated the anchor plus the sum
\* of the first k sampled cycle lengths less the offset, and carries the
\* k-th sampled bleed length and no note; the two scenarios give the dates
\* of the specification.
C5_Original ==
    /\ ~HasHook =>
          \A k \in 1..Len(cycles) :
              cycles[k] =
                  [start_date |-> anchor + WholeDays(SumTicks(drawn_cycle, k)
                                                     - OffsetTicks),
                   bleed_length |-> drawn_bleed[k],
                   note |-> NONE]
    /\ ScenariosHold

\* C5, amended: without a hook, record k is dated the anchor plus the whole
\* days of each of the first k sampled cycle lengths, each rounded down on
\* its own, less the offset, and carries the k-th sampled bleed length and
\* no note; the two scenarios give the dates of the specification.
C5_SumOfWholeDays ==
    /\ ~HasHook =>
          \A k \in 1..Len(cycles) :
              cycles[k] =
                  [start_date |-> anchor + SumWholeDays(drawn_cycle, k)
                                  - initial_cycle_day,
                   bleed_length |-> drawn_bleed[k],
                   note |-> NONE]
    /\ ScenariosHold

C5_Witness ==
    /\ ~HasHook
    /\ pc = "done"
    /\ count = 2
    /\ initial_cycle_day = 10
    /\ drawn_cycle = <<60, 60>>
    /\ result.value[2].start_date = anchor + 2 - 10

\* The interval of record k, for k > 1, is the whole days of the override's
\* cycle length or of the sampled one, with nothing taken off.
LaterIntervalsFull ==
    \A k \in 2..Len(cycles) :
        cycles[k].start_date - cycles[k - 1].start_date =
            WholeDays(IF hook_events[k].some
                      THEN hook_events[k].cycle_length
                      ELSE drawn_cycle[k])

\* C6 as stated: the first record is dated the anchor plus the first
\* sampled cycle length less the offset, also when the hook fires on the
\* first cycle, and no later interval is reduced by the offset.
C6_Original ==
    /\ Len(cycles) >= 1 =>
          cycles[1].start_date - anchor = WholeDays(drawn_cycle[1] - OffsetTicks)
    /\ LaterIntervalsFull

\* C6, amended: the first record is dated the anchor plus the whole days of
\* the first sampled cycle length less the offset when the hook returns no
\* override for the first cycle, and the anchor plus the whole days of the
\* override's cycle length, the offset not taken off, when it returns one;
\* no later interval is reduced by the offset.
C6_FirstIntervalOffset ==
    /\ Len(cycles) >= 1 =>
          cycles[1].start_date - anchor =
              IF hook_events[1].some
              THEN WholeDays(hook_events[1].cycle_length)
              ELSE WholeDays(drawn_cycle[1] - OffsetTicks)
    /\ LaterIntervalsFull

C6_Witness ==
    /\ pc = "done"
    /\ count = 2
    /\ initial_cycle_day = 10
    /\ hook_events[1].some
    /\ ~hook_events[2].some
    /\ cycles[1].start_date - anchor # WholeDays(drawn_cycle[1] - OffsetTicks)

\* C7: a second call from the same stream position, on the same profile
\* with the same arguments, reads the draws the first call read and no
\* others, and ends as the first did: the same records returned, or the
\* same exception raised.
C7_Deterministic ==
    call_no = 2 =>
        /\ Len(tape) = first.pos
        /\ pos <= first.pos
        /\ pc \in {"done", "raised"} =>
              /\ result = first.result
              /\ exception = first.exception
              /\ pos = first.pos

C7_Witness ==
    /\ call_no = 2
    /\ pc = "done"
    /\ IsDefault
    /\ count = 2
    /\ hook_events[1].some
    /\ ~hook_events[2].some
    /\ result = first.result
    /\ Len(result.value) = 2

\* The order of the events of one iteration.
IterationOrder == <<"cycle", "bleed", "hook", "append">>

\* The log is the iteration order, repeated: entry n is event (n-1) mod 4
\* of iteration (n-1) div 4.
LogInOrder ==
    \A n \in 1..Len(log) :
        log[n] = <<IterationOrder[((n - 1) % 4) + 1], (n - 1) \div 4>>

\* A record is appended exactly at the "append" events.
AppendsAtCommit ==
    pc # "raised" => Len(cycles) = Len(log) \div 4

\* A step changes no record appended before it.
RecordsKept ==
    \A k \in 1..Len(cycles) : k <= Len(cycles') /\ cycles'[k] = cycles[k]

\* C8: in every iteration the cycle length is sampled, then the bleed
\* length, then the hook is invoked, then the record is appended; and no
\* step changes a record appended earlier.
C8_OrderAndImmutable ==
    /\ [](LogInOrder /\ AppendsAtCommit)
    /\ [][RecordsKept]_vars

C8_Witness ==
    /\ pc = "done"
    /\ HasHook
    /\ count = 2
    /\ Len(log) = 8
    /\ hook_events[1].some

\* The exception the callable called last raises when it fails.
RaisedByLast ==
    LET tag == log[Len(log)][1] IN
    CASE tag = "cycle" -> exception = "CycleError"
      [] tag = "bleed" -> exception = "BleedError"
      [] tag = "hook" -> exception = "HookError"
      [] OTHER -> FALSE

\* C9: once a sampler or the hook has raised, the call is over: it has
\* raised that exception, returns nothing, and takes no further step (no
\* retry, no further invocation).
C9_ErrorsPropagate ==
    /\ exception # "none" => pc = "raised"
    /\ pc = "raised" =>
          /\ exception # "none"
          /\ RaisedByLast
          /\ result = NoResult
          /\ ~ENABLED Next

C9_Witness ==
    /\ pc = "raised"
    /\ exception = "HookError"
    /\ i = 1
    /\ Len(cycles) = 1
    /\ result = NoResult

\* The hook call that has just been made (pc = "commit") on a default
\* profile.
AfterDefaultHook == IsDefault /\ pc = "commit"

\* The number of overrides the hook has returned so far.
Fired == Cardinality({k \in 1..Len(hook_events) : hook_events[k].some})

\* When the default hook does not fire it reads one draw (random.random())
\* and calls no sampler.
QuietWhenNotFiring ==
    (AfterDefaultHook /\ ~event.some) =>
        /\ event = NoEvent
        /\ calls.cycle = (i + 1) + Fired
        /\ calls.bleed = (i + 1) + Fired
        /\ Len(hook_inner[i + 1].used) = 1

\* C10 as stated: when the default hook fires, the override's cycle length
\* is the cycle length generate_cycles sampled for this cycle times a
\* factor of [2, 3]; when it does not fire it returns nothing and calls no
\* sampler.
C10_Original ==
    /\ (AfterDefaultHook /\ event.some) =>
          \E f \in 8..12 : event.cycle_length * 4 = drawn_cycle[i + 1] * f
    /\ QuietWhenNotFiring

\* C10, amended: when the default hook fires, the override's cycle length
\* is a cycle length the hook samples itself (the draw that follows its
\* random.random() draw in the stream) times 2 + random.random(), a factor
\* of [2, 3), and its bleed length is a bleed length the hook samples
\* itself; when it does not fire it returns nothing and calls no sampler.
C10_FreshSampleStretched ==
    /\ (AfterDefaultHook /\ event.some) =>
          LET c == get_cycle_length(profile, tape[pos - 2]).val
              f == 8 + RandomValues[tape[pos - 1]]
              b == get_bleed_length(profile, tape[pos]).val
          IN  /\ event.cycle_length * 4 = c * f
              /\ event.bleed_length = b
              /\ f \in 8..11
              /\ calls.cycle = (i + 1) + Fired
              /\ calls.bleed = (i + 1) + Fired
    /\ QuietWhenNotFiring

C10_Witness ==
    /\ AfterDefaultHook
    /\ event.some
    /\ i = 1
    /\ hook_inner[2].cycle_sample # drawn_cycle[2]
    /\ event.cycle_length * 4 = hook_inner[2].cycle_sample * 10

====
